---- MODULE Spec2Model ----
(***************************************************************************)
(* The behavior record store of the classroom dashboard: DataManager in    *)
(* src/data_manager.py.  The store is a pandas DataFrame held in           *)
(* self.behavior_data and a CSV file at self.data_file; every mutation     *)
(* rewrites the file in full.                                              *)
(*                                                                         *)
(* A DataFrame is modelled as [isNone, cols, rows]: the set of its column  *)
(* labels and the sequence of its rows.  A cell of the student column      *)
(* carries its Python type, [t |-> "str" | "int", v |-> text], because     *)
(* to_csv writes text and read_csv infers each column's type from the      *)
(* text it finds; date and color cells are strings, NaN standing for a     *)
(* missing value.  The file is [st, cols, rows] with rows of plain text.   *)
(***************************************************************************)
EXTENDS Integers, Sequences, FiniteSets, TLC

VARIABLES
    behavior_data,  \* self.behavior_data: the in-memory DataFrame (or None)
    data_file,      \* the content of the file at self.data_file
    export_file,    \* the file the call just completed exported to
    last,           \* the call just completed: operation, arguments, repetition
    ret,            \* how that call ended: its return value, or "raise"
    out,            \* the rows of the DataFrame that call returned
    summary,        \* the dictionary that call returned
    pre_data,       \* behavior_data as it was when that call began
    pre_file,       \* data_file as it was when that call began
    session_state,  \* st.session_state of the dashboard session (app.py)
    peer_data,      \* self.behavior_data of a second session's DataManager
    ui              \* the step of the dashboard just done, and what it saw

vars == <<behavior_data, data_file, export_file, last, ret, out, summary,
          pre_data, pre_file, session_state, peer_data, ui>>

\* what a call on the DataManager alone leaves as it is
beyond == <<session_state, peer_data, ui>>

----------------------------------------------------------------------------
(* Bounds and value sets *)

\* largest number of rows the model lets the DataFrame grow to
MaxRows == 3

\* roster names: app.py passes df[...].astype(str), so a name is any string,
\* a numeric student id included
Students == {"Alice", "7"}

\* the texts read_csv parses as integers
NumericTexts == {"7"}

\* dates as the callers format them, strftime("%Y-%m-%d")
Dates == {"2024-01-05", "2024-01-15"}

\* the dates behavior is recorded for during the runs: the day of the
\* session (records of another day come from the file)
EntryDates == {"2024-01-05"}

Colors == {"Red", "Blue"}

\* the rosters load_or_create_behavior_data is called with
Rosters == {Students}

AllCols == {"student", "date", "color"}

\* a missing value in memory, and the text to_csv writes for it
NaN == "NaN"
NaText == ""

\* a date text pd.to_datetime cannot parse (found in foreign files only)
BadDate == "notadate"

\* the date ranges a caller of the bulk query may ask for, and no range
NoRange == [start |-> "", end |-> ""]
DateRanges == {[start |-> "2024-01-01", end |-> "2024-01-10"]}

----------------------------------------------------------------------------
(* DataFrames and files *)

StrCell(text) == [t |-> "str", v |-> text]
IntCell(text) == [t |-> "int", v |-> text]

NoneData == [isNone |-> TRUE, cols |-> {}, rows |-> <<>>]

\* pd.DataFrame({'student': [], 'date': [], 'color': []}) and
\* pd.DataFrame(columns=['student', 'date', 'color'])
EmptyFrame == [isNone |-> FALSE, cols |-> AllCols, rows |-> <<>>]

\* pd.DataFrame(): no columns, no rows
BareFrame == [isNone |-> FALSE, cols |-> {}, rows |-> <<>>]

Frame(cols, rows) == [isNone |-> FALSE, cols |-> cols, rows |-> rows]

Row(student, date, color) == [student |-> student, date |-> date, color |-> color]

AbsentFile == [st |-> "absent", cols |-> {}, rows |-> <<>>]
\* a file of zero bytes
EmptyFile == [st |-> "empty", cols |-> {}, rows |-> <<>>]
Table(cols, rows) == [st |-> "table", cols |-> cols, rows |-> rows]

\* DataFrame.empty
IsEmpty(df) == Len(df.rows) = 0

CellText(x) == IF x = NaN THEN NaText ELSE x
TextCell(x) == IF x = NaText THEN NaN ELSE x

\* DataFrame.to_csv(path, index=False): the header, then each row as text
to_csv(df) ==
    Table(df.cols,
          [i \in 1..Len(df.rows) |->
              Row(df.rows[i].student.v,
                  CellText(df.rows[i].date),
                  CellText(df.rows[i].color))])

\* the type read_csv infers for the student column: int64 when every value
\* parses as an integer, object (strings) otherwise
StudentType(f) ==
    IF Len(f.rows) > 0 /\ \A i \in 1..Len(f.rows) : f.rows[i].student \in NumericTexts
    THEN "int" ELSE "str"

\* pd.read_csv(path) of a file with a header line
read_csv(f) ==
    Frame(f.cols,
          [i \in 1..Len(f.rows) |->
              Row([t |-> StudentType(f), v |-> f.rows[i].student],
                  TextCell(f.rows[i].date),
                  TextCell(f.rows[i].color))])

----------------------------------------------------------------------------
(* The operations of DataManager, as functions of the state they read *)

\* DataManager._save_behavior_data, given how the write to disk goes:
\* "ok", "open_fail" (the file cannot be opened: nothing is written) or
\* "write_fail" (to_csv opens the file for writing, which truncates it, and
\* the write then fails).  The result is the file content and the return value.
SaveOutcomes == {"ok", "open_fail", "write_fail"}

\* _save_behavior_data opening the file to append: the rows written follow
\* the rows the file held
save_appends(df, file, outcome) ==
    IF df.isNone THEN [file |-> file, ret |-> "False"]
    ELSE IF outcome = "ok"
    THEN [file |-> Table(df.cols, file.rows \o to_csv(df).rows), ret |-> "True"]
    ELSE IF outcome = "open_fail" THEN [file |-> file, ret |-> "False"]
    ELSE [file |-> EmptyFile, ret |-> "False"]

\* _save_behavior_data keeping the rows of the file whose key the DataFrame
\* does not hold (a write that merges instead of overwriting)
save_merges(df, file, outcome) ==
    IF df.isNone THEN [file |-> file, ret |-> "False"]
    ELSE IF outcome = "ok"
    THEN LET written == to_csv(df).rows
             kept == SelectSeq(file.rows,
                        LAMBDA r : \A i \in 1..Len(written) :
                            written[i].student # r.student \/ written[i].date # r.date) IN
         [file |-> Table(df.cols, kept \o written), ret |-> "True"]
    ELSE IF outcome = "open_fail" THEN [file |-> file, ret |-> "False"]
    ELSE [file |-> EmptyFile, ret |-> "False"]

\* _save_behavior_data returning True whatever happened
save_reports_true(df, file, outcome) ==
    IF df.isNone THEN [file |-> file, ret |-> "True"]
    ELSE IF outcome = "ok" THEN [file |-> to_csv(df), ret |-> "True"]
    ELSE IF outcome = "open_fail" THEN [file |-> file, ret |-> "True"]
    ELSE [file |-> EmptyFile, ret |-> "True"]

save_behavior_data(df, file, outcome) ==
    IF df.isNone THEN [file |-> file, ret |-> "False"]
    ELSE IF outcome = "ok" THEN [file |-> to_csv(df), ret |-> "True"]
    ELSE IF outcome = "open_fail" THEN [file |-> file, ret |-> "False"]
    ELSE [file |-> EmptyFile, ret |-> "False"]

\* (behavior_data['student'] == student_name) & (behavior_data['date'] == date)
\* at row i; student_name is a str, so an int cell never equals it
Matches(df, i, student_name, date) ==
    df.rows[i].student = StrCell(student_name) /\ df.rows[i].date = date

\* add_entry replacing an existing record by dropping it and appending the
\* new one
add_entry_moves_to_end(df, student_name, color, date) ==
    IF df.isNone
    THEN [ok |-> TRUE,
          df |-> Frame(AllCols, <<Row(StrCell(student_name), date, color)>>)]
    ELSE IF ~({"student", "date"} \subseteq df.cols)
    THEN [ok |-> FALSE, df |-> df]
    ELSE [ok |-> TRUE,
          df |-> Frame(df.cols \cup AllCols,
                       Append(SelectSeq(df.rows,
                                  LAMBDA r : ~(/\ r.student = StrCell(student_name)
                                               /\ r.date = date)),
                              Row(StrCell(student_name), date, color)))]

\* the in-memory part of add_behavior_entry (lines 47-75): ok is FALSE when
\* an exception is raised (a KeyError for a missing column), and then df is
\* the DataFrame as the exception leaves it
add_entry(df, student_name, color, date) ==
    IF df.isNone
    THEN [ok |-> TRUE,
          df |-> Frame(AllCols, <<Row(StrCell(student_name), date, color)>>)]
    ELSE IF ~({"student", "date"} \subseteq df.cols)
    THEN [ok |-> FALSE, df |-> df]
    ELSE IF \E i \in 1..Len(df.rows) : Matches(df, i, student_name, date)
    THEN [ok |-> TRUE,
          df |-> Frame(df.cols \cup {"color"},
                       [i \in 1..Len(df.rows) |->
                           IF Matches(df, i, student_name, date)
                           THEN [df.rows[i] EXCEPT !.color = color]
                           ELSE df.rows[i]])]
    ELSE [ok |-> TRUE,
          df |-> Frame(df.cols \cup AllCols,
                       Append(df.rows, Row(StrCell(student_name), date, color)))]

\* pd.to_datetime of one date text: the day it names
Parseable(date) == date \in Dates \/ date = NaN

DateNum(date) ==
    CASE date = "2024-01-05" -> 20240105
      [] date = "2024-01-15" -> 20240115
      [] date = "2024-01-01" -> 20240101
      [] date = "2024-01-10" -> 20240110
      [] OTHER -> 99999999        \* NaT sorts last

\* sort_values(by='date'): ascending, rows of equal date keeping their order
RECURSIVE InsertByDate(_, _)
InsertByDate(sorted, r) ==
    IF Len(sorted) = 0 THEN <<r>>
    ELSE IF DateNum(sorted[Len(sorted)].date) <= DateNum(r.date)
    THEN Append(sorted, r)
    ELSE Append(InsertByDate(SubSeq(sorted, 1, Len(sorted) - 1), r),
                sorted[Len(sorted)])

RECURSIVE SortByDate(_)
SortByDate(rows) ==
    IF Len(rows) = 0 THEN <<>>
    ELSE InsertByDate(SortByDate(SubSeq(rows, 1, Len(rows) - 1)), rows[Len(rows)])

\* a date cell of a returned DataFrame: the text held in memory, or the
\* Timestamp pd.to_datetime made of it
DateStr(date) == [t |-> IF date = NaN THEN "nan" ELSE "str", v |-> date]
Timestamp(date) == [t |-> IF date = NaN THEN "NaT" ELSE "ts", v |-> date]

StudentRows(df, student_name) ==
    SelectSeq(df.rows, LAMBDA r : r.student = StrCell(student_name))

\* DataManager.get_student_behavior_data: raise is TRUE when the call ends
\* with an exception (there is no try block), else df is the returned frame
get_student_behavior_data(df, student_name) ==
    IF df.isNone \/ IsEmpty(df)
    THEN [raise |-> FALSE, df |-> BareFrame]
    ELSE LET student_data == StudentRows(df, student_name) IN
         IF Len(student_data) = 0
         THEN [raise |-> FALSE, df |-> Frame(df.cols, <<>>)]
         ELSE IF "date" \notin df.cols
              \/ \E i \in 1..Len(student_data) : ~Parseable(student_data[i].date)
         THEN [raise |-> TRUE, df |-> BareFrame]
         ELSE LET sorted == SortByDate(student_data) IN
              [raise |-> FALSE,
               df |-> Frame(df.cols,
                            [i \in 1..Len(sorted) |->
                                [sorted[i] EXCEPT !.date = Timestamp(@)]])]

\* get_all_behavior_data leaving out the last row
get_all_but_last(df) ==
    IF df.isNone THEN BareFrame
    ELSE Frame(df.cols, [i \in 1..(Len(df.rows) - 1) |->
                            [df.rows[i] EXCEPT !.date = DateStr(@)]])

\* DataManager.get_all_behavior_data
get_all_behavior_data(df) ==
    IF df.isNone THEN BareFrame
    ELSE Frame(df.cols, [i \in 1..Len(df.rows) |->
                            [df.rows[i] EXCEPT !.date = DateStr(@)]])

\* Series.value_counts().to_dict(): each color present, with its count
ColorCounts(rows) ==
    {<<c, Len(SelectSeq(rows, LAMBDA r : r.color = c))>> :
        c \in {rows[i].color : i \in 1..Len(rows)} \ {NaN}}

\* Series.unique().tolist(): the distinct values in order of first appearance
RECURSIVE Unique(_)
Unique(cells) ==
    IF Len(cells) = 0 THEN <<>>
    ELSE LET init == Unique(SubSeq(cells, 1, Len(cells) - 1))
             x == cells[Len(cells)] IN
         IF \E i \in 1..Len(init) : init[i] = x THEN init ELSE Append(init, x)

\* the value of the summary variable after a call that returns no dictionary
NoSummary ==
    [total_students |-> 0, total_entries |-> 0, color_distribution |-> {},
     most_recent_date |-> Timestamp(NaN), first_entry_date |-> Timestamp(NaN),
     students_with_data |-> <<>>]

\* DataManager.get_student_summary: ret is "raise", "None" or "dict"
get_student_summary(df, student_name) ==
    LET got == get_student_behavior_data(df, student_name)
        student_data == got.df.rows IN
    IF got.raise THEN [ret |-> "raise", summary |-> NoSummary]
    ELSE IF IsEmpty(got.df) THEN [ret |-> "None", summary |-> NoSummary]
    ELSE IF "color" \notin got.df.cols THEN [ret |-> "raise", summary |-> NoSummary]
    ELSE [ret |-> "dict",
          summary |-> [NoSummary EXCEPT
              !.total_entries = Len(student_data),
              !.color_distribution = ColorCounts(student_data),
              !.most_recent_date = student_data[Len(student_data)].date,
              !.first_entry_date = student_data[1].date]]

\* DataManager.get_class_summary
get_class_summary(df) ==
    IF df.isNone \/ IsEmpty(df) THEN [ret |-> "None", summary |-> NoSummary]
    ELSE IF "color" \notin df.cols THEN [ret |-> "raise", summary |-> NoSummary]
    ELSE LET students == [i \in 1..Len(df.rows) |-> df.rows[i].student] IN
         [ret |-> "dict",
          summary |-> [NoSummary EXCEPT
              !.total_students = Len(Unique(students)),
              !.total_entries = Len(df.rows),
              !.color_distribution = ColorCounts(df.rows),
              !.students_with_data = Unique(students)]]

\* load_data without the KeyError of _ensure_all_students_exist: a table
\* with no student column is kept as read
load_data_no_fallback(file, readable) ==
    IF file.st = "absent" THEN EmptyFrame
    ELSE IF ~readable \/ file.st = "empty" THEN EmptyFrame
    ELSE read_csv(file)

\* the in-memory part of load_or_create_behavior_data (lines 16-28): an absent
\* file gives the new DataFrame; a file that cannot be read (readable is
\* FALSE) or is empty makes read_csv raise, and a table without a student
\* column makes _ensure_all_students_exist raise, and the except block then
\* substitutes the new DataFrame
load_data(file, readable) ==
    IF file.st = "absent" THEN EmptyFrame
    ELSE IF ~readable \/ file.st = "empty" THEN EmptyFrame
    ELSE IF "student" \notin file.cols THEN EmptyFrame
    ELSE read_csv(file)

\* without_student with the filter lost: every row is dropped
without_student_drops_all(df, student_name) == Frame(df.cols, <<>>)

\* behavior_data[behavior_data['student'] != student_name]
without_student(df, student_name) ==
    Frame(df.cols, SelectSeq(df.rows, LAMBDA r : r.student # StrCell(student_name)))

----------------------------------------------------------------------------
(* The calls, as steps of the store *)

\* the record of a call: its arguments, whether it repeats the key or all the
\* arguments of an add_behavior_entry just before it, and how its file
\* access went ("none" when it made none)
Call(op, s, c, d, io) ==
    [op |-> op, s |-> s, c |-> c, d |-> d, io |-> io,
     again |-> IF op = "add_behavior_entry" /\ last.op = op /\ last.s = s /\ last.d = d
               THEN (IF last.c = c THEN "args" ELSE "key")
               ELSE "no"]

Begin(call) ==
    /\ last' = call
    /\ pre_data' = behavior_data
    /\ pre_file' = data_file

Returns(value, frame, dict) ==
    /\ ret' = value
    /\ out' = frame
    /\ summary' = dict

NoFrame == <<>>

\* export_behavior_data writes to a file of its own, by default one named
\* after the time of the call; export_file is that file, and no file after
\* a call that exports nothing
NoExport == export_file' = AbsentFile

\* DataManager.__init__ (app.py creates one DataManager per session)
DataManager_init ==
    /\ UNCHANGED beyond
    /\ Begin(Call("__init__", "", "", "", "none"))
    /\ behavior_data' = NoneData
    /\ Returns("None", NoFrame, NoSummary)
    /\ NoExport
    /\ UNCHANGED data_file

load_or_create_behavior_data ==
    \E student_names \in Rosters, readable \in BOOLEAN :
        /\ UNCHANGED beyond
        /\ Begin(Call("load_or_create_behavior_data", "", "", "",
                      IF data_file.st = "absent" THEN "none"
                      ELSE IF readable THEN "ok" ELSE "unreadable"))
        /\ behavior_data' = load_data(data_file, readable)
        /\ Returns("None", NoFrame, NoSummary)
        /\ NoExport
        /\ UNCHANGED data_file

\* date=None is replaced by today's date in the same format, so the date
\* argument ranges over EntryDates in both cases
add_behavior_entry ==
    \E student_name \in Students, color \in Colors, date \in EntryDates,
       outcome \in SaveOutcomes :
        LET added == add_entry(behavior_data, student_name, color, date)
            saved == save_behavior_data(added.df, data_file, outcome) IN
        /\ Len(added.df.rows) <= MaxRows
        /\ UNCHANGED beyond
        /\ Begin(Call("add_behavior_entry", student_name, color, date,
                      IF added.ok THEN outcome ELSE "none"))
        /\ behavior_data' = added.df
        /\ data_file' = IF added.ok THEN saved.file ELSE data_file
        /\ Returns(IF added.ok THEN saved.ret ELSE "False", NoFrame, NoSummary)
        /\ NoExport

get_student_behavior_data_call ==
    \E student_name \in Students :
        LET got == get_student_behavior_data(behavior_data, student_name) IN
        /\ UNCHANGED beyond
        /\ Begin(Call("get_student_behavior_data", student_name, "", "", "none"))
        /\ Returns(IF got.raise THEN "raise" ELSE "frame", got.df.rows, NoSummary)
        /\ NoExport
        /\ UNCHANGED <<behavior_data, data_file>>

\* the method is declared get_all_behavior_data(self): a caller that passes
\* a date range gets a TypeError from the call itself, before the body runs
\* (ret is then "TypeError").  The record of the call holds the range
\* passed, start in d and end in c ("" for none).
get_all_behavior_data_call ==
    \E date_range \in {NoRange} \cup DateRanges :
        /\ UNCHANGED beyond
        /\ Begin(Call("get_all_behavior_data", "", date_range.end,
                      date_range.start, "none"))
        /\ IF date_range = NoRange
           THEN Returns("frame", get_all_behavior_data(behavior_data).rows,
                        NoSummary)
           ELSE Returns("TypeError", NoFrame, NoSummary)
        /\ NoExport
        /\ UNCHANGED <<behavior_data, data_file>>

get_student_summary_call ==
    \E student_name \in Students :
        LET got == get_student_summary(behavior_data, student_name) IN
        /\ UNCHANGED beyond
        /\ Begin(Call("get_student_summary", student_name, "", "", "none"))
        /\ Returns(got.ret, NoFrame, got.summary)
        /\ NoExport
        /\ UNCHANGED <<behavior_data, data_file>>

get_class_summary_call ==
    LET got == get_class_summary(behavior_data) IN
    /\ UNCHANGED beyond
    /\ Begin(Call("get_class_summary", "", "", "", "none"))
    /\ Returns(got.ret, NoFrame, got.summary)
    /\ NoExport
    /\ UNCHANGED <<behavior_data, data_file>>

export_behavior_data ==
    \E outcome \in SaveOutcomes :
        LET writes == ~behavior_data.isNone /\ ~IsEmpty(behavior_data) IN
        /\ UNCHANGED beyond
        /\ Begin(Call("export_behavior_data", "", "", "",
                      IF writes THEN outcome ELSE "none"))
        /\ export_file' = IF ~writes \/ outcome = "open_fail" THEN AbsentFile
                          ELSE IF outcome = "ok" THEN to_csv(behavior_data)
                          ELSE EmptyFile
        /\ Returns(IF writes /\ outcome = "ok" THEN "filename" ELSE "None",
                   NoFrame, NoSummary)
        /\ UNCHANGED <<behavior_data, data_file>>

clear_student_data ==
    \E student_name \in Students, outcome \in SaveOutcomes :
        LET clears == ~behavior_data.isNone /\ ~IsEmpty(behavior_data)
            kept == without_student(behavior_data, student_name)
            saved == save_behavior_data(kept, data_file, outcome) IN
        /\ UNCHANGED beyond
        /\ Begin(Call("clear_student_data", student_name, "", "",
                      IF clears THEN outcome ELSE "none"))
        /\ behavior_data' = IF clears THEN kept ELSE behavior_data
        /\ data_file' = IF clears THEN saved.file ELSE data_file
        /\ Returns(IF clears THEN saved.ret ELSE "True", NoFrame, NoSummary)
        /\ NoExport

clear_all_data ==
    \E outcome \in SaveOutcomes :
        LET saved == save_behavior_data(EmptyFrame, data_file, outcome) IN
        /\ UNCHANGED beyond
        /\ Begin(Call("clear_all_data", "", "", "", outcome))
        /\ behavior_data' = EmptyFrame
        /\ data_file' = saved.file
        /\ Returns(saved.ret, NoFrame, NoSummary)
        /\ NoExport

Next ==
    \/ DataManager_init
    \/ load_or_create_behavior_data
    \/ add_behavior_entry
    \/ get_student_behavior_data_call
    \/ get_all_behavior_data_call
    \/ get_student_summary_call
    \/ get_class_summary_call
    \/ export_behavior_data
    \/ clear_student_data
    \/ clear_all_data

\* the files the store can find at data_file when a session starts: none,
\* or whatever an earlier run or another program left there
Alice == "Alice"
Day1 == "2024-01-05"
Day2 == "2024-01-15"

ForeignFiles ==
    { AbsentFile,
      EmptyFile,
      Table(AllCols, <<>>),
      Table({"date", "color"}, <<Row(NaText, Day1, "Red")>>),
      Table({"student", "color"}, <<Row(Alice, NaText, "Red")>>),
      Table({"student", "date"}, <<Row(Alice, Day1, NaText)>>),
      Table(AllCols, <<Row(Alice, BadDate, "Red")>>),
      Table(AllCols, <<Row(Alice, Day1, "Red"), Row(Alice, Day1, "Blue")>>),
      Table(AllCols, <<Row(Alice, Day2, "Red"), Row(Alice, Day1, "Blue")>>) }

\* the record of no call at all
NoCallAtStart ==
    [op |-> "", s |-> "", c |-> "", d |-> "", io |-> "none", again |-> "no"]

\* no dashboard session: the DataManager is driven directly
NoSession == [students_df |-> "None"]
NoStep == [event |-> ""]

InitStore(file) ==
    /\ behavior_data = NoneData
    /\ data_file = file
    /\ export_file = AbsentFile
    /\ last = [op |-> "__init__", s |-> "", c |-> "", d |-> "", io |-> "none",
               again |-> "no"]
    /\ ret = "None"
    /\ out = NoFrame
    /\ summary = NoSummary
    /\ pre_data = NoneData
    /\ pre_file = file

InitWith(file) ==
    /\ InitStore(file)
    /\ session_state = NoSession
    /\ peer_data = NoneData
    /\ ui = NoStep

\* a first session: DataManager() with no file behind it yet
Init == InitWith(AbsentFile)

Spec == Init /\ [][Next]_vars

\* a session starting on any file
InitAnyFile == \E file \in ForeignFiles : InitWith(file)

SpecAnyFile == InitAnyFile /\ [][Next]_vars

----------------------------------------------------------------------------
(* The report of the dashboard: generate_rich_html_report in src/app.py and *)
(* BehaviorTracker.calculate_points_summary, whose module is not among the  *)
(* sources and is taken from section 4.2 of the specification               *)

\* the palettes BehaviorTracker may be configured with: each color is good
\* (+1), bad (-1) or point-neutral (0); here Red is bad and Blue neutral,
\* or Red neutral and Blue good
Palettes ==
    { [color \in Colors |-> IF color = "Red" THEN -1 ELSE 0],
      [color \in Colors |-> IF color = "Blue" THEN 1 ELSE 0] }

\* the point value of a record: that of its color, 0 for a color the
\* palette does not know
PointValue(r, points) == IF r.color \in DOMAIN points THEN points[r.color] ELSE 0

\* good / (good + bad) * 100 rounded to one decimal, in tenths of a percent
Percentage(good, bad) == ((good * 2000) \div (good + bad) + 1) \div 2

\* calculate_points_summary dividing without looking at the denominator
calculate_points_summary_unguarded(student_data, points) ==
    LET rows == student_data.rows
        good == Len(SelectSeq(rows, LAMBDA r : PointValue(r, points) = 1))
        bad == Len(SelectSeq(rows, LAMBDA r : PointValue(r, points) = -1)) IN
    IF good + bad = 0
    THEN [ret |-> "raise",
          summary |-> [total_good_points |-> 0, total_bad_points |-> 0,
                       good_percentage |-> 0, days_recorded |-> 0]]
    ELSE [ret |-> "dict",
          summary |-> [total_good_points |-> good, total_bad_points |-> bad,
                       good_percentage |-> Percentage(good, bad),
                       days_recorded |->
                           Cardinality({rows[i].date : i \in 1..Len(rows)})]]

\* BehaviorTracker.calculate_points_summary(student_data), as section 4.2
\* defines summarize: ret is "dict" (it never fails)
calculate_points_summary(student_data, points) ==
    LET rows == student_data.rows
        good == Len(SelectSeq(rows, LAMBDA r : PointValue(r, points) = 1))
        bad == Len(SelectSeq(rows, LAMBDA r : PointValue(r, points) = -1)) IN
    [ret |-> "dict",
     summary |-> [total_good_points |-> good, total_bad_points |-> bad,
                  good_percentage |-> IF good + bad = 0 THEN 0
                                      ELSE Percentage(good, bad),
                  days_recorded |->
                      Cardinality({rows[i].date : i \in 1..Len(rows)})]]

\* the charts of one student (lines 43-71), drawn only for data that is not
\* empty: value_counts needs the color column, and the timeline looks each
\* row's color up in the palette
ChartsRaise(student_data, points) ==
    /\ ~IsEmpty(student_data)
    /\ \/ "color" \notin student_data.cols
       \/ \E i \in 1..Len(student_data.rows) :
              student_data.rows[i].color \notin DOMAIN points

\* one round of the loop of generate_rich_html_report: the student's data,
\* the charts, and the summary, which is computed whether or not the data
\* is empty
ReportOf(df, student_name, points) ==
    LET got == get_student_behavior_data(df, student_name)
        points_summary == calculate_points_summary(got.df, points) IN
    [raise |-> got.raise \/ ChartsRaise(got.df, points)
                         \/ points_summary.ret = "raise",
     student_data |-> got.df.rows,
     points_summary |-> points_summary.summary]

\* the roster: st.session_state.students_df['name'].tolist()
Roster == <<"Alice", "7">>

\* the details of a student, the report form among them, are on the page
\* only when the student has data (line 395)
HasDetails(df, student_name) ==
    LET got == get_student_behavior_data(df, student_name) IN
    ~got.raise /\ ~IsEmpty(got.df)

\* the students of a report asked for on the page of student_name
ReportOptions == {"Only", "All Students"}
StudentList(student_name, report_option) ==
    IF report_option = "Only" THEN <<student_name>> ELSE Roster

\* the report form submitted on the page of student_name (lines 501-514):
\* the report is made for that student or for the roster.  summary is the
\* sequence of the points summaries, out that of the data they were made
\* of, and the record of the call holds the option chosen in c
generate_rich_html_report ==
    \E student_name \in Students, report_option \in ReportOptions :
        LET student_list == StudentList(student_name, report_option)
            points == session_state.behavior_tracker
            reports == [i \in 1..Len(student_list) |->
                           ReportOf(behavior_data, student_list[i], points)]
            raises == \E i \in 1..Len(reports) : reports[i].raise IN
        /\ HasDetails(behavior_data, student_name)
        /\ Begin(Call("generate_rich_html_report", student_name, report_option,
                      "", "none"))
        /\ Returns(IF raises THEN "raise" ELSE "html",
                   IF raises THEN NoFrame
                   ELSE [i \in 1..Len(reports) |-> reports[i].student_data],
                   IF raises THEN <<>>
                   ELSE [i \in 1..Len(reports) |-> reports[i].points_summary])
        /\ NoExport
        /\ UNCHANGED <<behavior_data, data_file, session_state, peer_data, ui>>

NextReport ==
    \/ add_behavior_entry
    \/ generate_rich_html_report

\* the files a report is made over: none, and tables with a missing color,
\* an unreadable date, two dates for one student, and a numeric student id
ReportFiles ==
    { AbsentFile,
      Table({"student", "date"}, <<Row(Alice, Day1, NaText)>>),
      Table(AllCols, <<Row(Alice, BadDate, "Red")>>),
      Table(AllCols, <<Row(Alice, Day2, "Red"), Row(Alice, Day1, "Blue")>>),
      Table(AllCols, <<Row("7", Day1, "Blue")>>) }

\* a session of the dashboard on such a file, with either palette: the
\* DataManager has loaded the file when the session began (lines 118-127)
InitReport ==
    \E file \in ReportFiles, points \in Palettes :
        /\ behavior_data = load_data(file, TRUE)
        /\ data_file = file
        /\ export_file = AbsentFile
        /\ last = NoCallAtStart
        /\ ret = "None"
        /\ out = NoFrame
        /\ summary = NoSummary
        /\ pre_data = NoneData
        /\ pre_file = file
        /\ session_state = [students_df |-> Roster, behavior_tracker |-> points]
        /\ peer_data = NoneData
        /\ ui = NoStep

SpecReport == InitReport /\ [][NextReport]_vars

----------------------------------------------------------------------------
(* Two sessions of the dashboard: each has a DataManager of its own in its *)
(* st.session_state (app.py lines 14-15), and both use the same data_file. *)
(* behavior_data is that of session A, peer_data that of session B; no     *)
(* lock is taken anywhere, and a call is taken as one step.                *)

Sessions == {"A", "B"}

DataOf(session) == IF session = "A" THEN behavior_data ELSE peer_data

\* the color the two sessions record (one color: what is lost is a key)
SessionColors == {"Red"}

\* the record of a step of a session: who made the call, and the call that
\* came before it with its session and return value
NoCallBefore == [session |-> "", op |-> "", s |-> "", d |-> "", ret |-> ""]
StepOf(session) ==
    [event |-> "call", session |-> session,
     before |-> [session |-> ui.session, op |-> last.op, s |-> last.s,
                 d |-> last.d, ret |-> ret]]

\* a call of a session: as Begin, for the DataManager of that session
BeginIn(session, call) ==
    /\ last' = call
    /\ pre_data' = DataOf(session)
    /\ pre_file' = data_file
    /\ ui' = StepOf(session)

\* the DataManager of the session becomes df, the other is left alone
Becomes(session, df) ==
    /\ behavior_data' = IF session = "A" THEN df ELSE behavior_data
    /\ peer_data' = IF session = "B" THEN df ELSE peer_data

session_load_or_create_behavior_data ==
    \E session \in Sessions, readable \in BOOLEAN :
        /\ BeginIn(session,
                   Call("load_or_create_behavior_data", "", "", "",
                        IF data_file.st = "absent" THEN "none"
                        ELSE IF readable THEN "ok" ELSE "unreadable"))
        /\ Becomes(session, load_data(data_file, readable))
        /\ Returns("None", NoFrame, NoSummary)
        /\ NoExport
        /\ UNCHANGED <<data_file, session_state>>

session_add_behavior_entry ==
    \E session \in Sessions, student_name \in Students, color \in SessionColors,
       date \in EntryDates, outcome \in SaveOutcomes :
        LET added == add_entry(DataOf(session), student_name, color, date)
            saved == save_behavior_data(added.df, data_file, outcome) IN
        /\ Len(added.df.rows) <= MaxRows
        /\ BeginIn(session,
                   Call("add_behavior_entry", student_name, color, date,
                        IF added.ok THEN outcome ELSE "none"))
        /\ Becomes(session, added.df)
        /\ data_file' = IF added.ok THEN saved.file ELSE data_file
        /\ Returns(IF added.ok THEN saved.ret ELSE "False", NoFrame, NoSummary)
        /\ NoExport
        /\ UNCHANGED session_state

NextSessions ==
    \/ session_load_or_create_behavior_data
    \/ session_add_behavior_entry

\* both sessions have started with no file there yet, and have loaded
InitSessions ==
    /\ behavior_data = load_data(AbsentFile, TRUE)
    /\ peer_data = load_data(AbsentFile, TRUE)
    /\ data_file = AbsentFile
    /\ export_file = AbsentFile
    /\ last = [op |-> "load_or_create_behavior_data", s |-> "", c |-> "",
               d |-> "", io |-> "none", again |-> "no"]
    /\ ret = "None"
    /\ out = NoFrame
    /\ summary = NoSummary
    /\ pre_data = NoneData
    /\ pre_file = AbsentFile
    /\ session_state = NoSession
    /\ ui = [event |-> "", session |-> "", before |-> NoCallBefore]

SpecSessions == InitSessions /\ [][NextSessions]_vars

----------------------------------------------------------------------------
(* The page of one student: display_student_details in src/app.py.  Each   *)
(* step is one run of the script after a click.  session_state holds the   *)
(* student selected and, per student, show_clear_dialog_{student}; ui      *)
(* records the button of the step, the password typed and the dialog flags *)
(* as the step found them.                                                 *)

\* the password typed into the dialog
Passwords == {"MRSJOYNER", "mrsjoyner", ""}

\* the comparison of line 541 accepting any password
password_accepted_always(password) == TRUE

\* password == "MRSJOYNER"
password_accepted(password) == password = "MRSJOYNER"

ClearOptions == {"Only", "All students"}

\* a step in which no method of the DataManager that the model records is
\* called
NoCall == Call("", "", "", "", "none")

\* the record of a step of the page
Click(event, password) ==
    [event |-> event, password |-> password,
     open_before |-> session_state.show_clear_dialog]

\* the dialog of the selected student is on the page: its flag is set and
\* the student has data (lines 395 and 521)
DialogShown ==
    /\ HasDetails(behavior_data, session_state.selected_student)
    /\ session_state.show_clear_dialog[session_state.selected_student]

SetDialog(open) ==
    session_state' =
        [session_state EXCEPT
            !.show_clear_dialog[session_state.selected_student] = open]

\* a roster button (lines 323-328)
select_student ==
    \E student \in Students :
        /\ Begin(NoCall)
        /\ ui' = Click("select", "")
        /\ session_state' = [session_state EXCEPT !.selected_student = student]
        /\ Returns("None", NoFrame, NoSummary)
        /\ NoExport
        /\ UNCHANGED <<behavior_data, data_file, peer_data>>

\* a color button of the page (lines 382-390); the return value is ignored
color_click ==
    \E color \in Colors, date \in EntryDates, outcome \in SaveOutcomes :
        LET student_name == session_state.selected_student
            added == add_entry(behavior_data, student_name, color, date)
            saved == save_behavior_data(added.df, data_file, outcome) IN
        /\ Len(added.df.rows) <= MaxRows
        /\ Begin(Call("add_behavior_entry", student_name, color, date,
                      IF added.ok THEN outcome ELSE "none"))
        /\ ui' = Click("color", "")
        /\ behavior_data' = added.df
        /\ data_file' = IF added.ok THEN saved.file ELSE data_file
        /\ Returns(IF added.ok THEN saved.ret ELSE "False", NoFrame, NoSummary)
        /\ NoExport
        /\ UNCHANGED <<session_state, peer_data>>

\* "Clear Behavior Data" (lines 485-487)
clear_link_click ==
    /\ HasDetails(behavior_data, session_state.selected_student)
    /\ Begin(NoCall)
    /\ ui' = Click("Clear Behavior Data", "")
    /\ SetDialog(TRUE)
    /\ Returns("None", NoFrame, NoSummary)
    /\ NoExport
    /\ UNCHANGED <<behavior_data, data_file, peer_data>>

\* "Clear Data" in the dialog (lines 538-567)
clear_data_click ==
    \E password \in Passwords, clear_option \in ClearOptions,
       outcome \in SaveOutcomes :
        LET student_name == session_state.selected_student
            kept == IF clear_option = "Only"
                    THEN without_student(behavior_data, student_name)
                    ELSE EmptyFrame
            saved == save_behavior_data(kept, data_file, outcome) IN
        /\ DialogShown
        /\ ui' = Click("Clear Data", password)
        /\ NoExport
        /\ UNCHANGED peer_data
        /\ IF password_accepted(password)
           THEN /\ Begin(IF clear_option = "Only"
                         THEN Call("clear_student_data", student_name, "", "",
                                   outcome)
                         ELSE Call("clear_all_data", "", "", "", outcome))
                /\ behavior_data' = kept
                /\ data_file' = saved.file
                /\ Returns(saved.ret, NoFrame, NoSummary)
                /\ IF saved.ret = "True"
                   THEN SetDialog(FALSE)
                   ELSE UNCHANGED session_state
           ELSE /\ Begin(NoCall)
                /\ Returns("None", NoFrame, NoSummary)
                /\ UNCHANGED <<behavior_data, data_file, session_state>>

\* "Cancel" in the dialog (lines 569-572)
cancel_click ==
    /\ DialogShown
    /\ Begin(NoCall)
    /\ ui' = Click("Cancel", "")
    /\ SetDialog(FALSE)
    /\ Returns("None", NoFrame, NoSummary)
    /\ NoExport
    /\ UNCHANGED <<behavior_data, data_file, peer_data>>

NextPage ==
    \/ select_student
    \/ color_click
    \/ clear_link_click
    \/ clear_data_click
    \/ cancel_click

\* a session on any file: the DataManager has loaded it, the first student
\* of the roster is selected (lines 306-308) and no dialog is open
InitPage ==
    \E file \in ForeignFiles, readable \in BOOLEAN :
        /\ behavior_data = load_data(file, readable)
        /\ data_file = file
        /\ export_file = AbsentFile
        /\ last = NoCallAtStart
        /\ ret = "None"
        /\ out = NoFrame
        /\ summary = NoSummary
        /\ pre_data = NoneData
        /\ pre_file = file
        /\ session_state = [students_df |-> Roster,
                            selected_student |-> Roster[1],
                            show_clear_dialog |-> [s \in Students |-> FALSE]]
        /\ peer_data = NoneData
        /\ ui = [event |-> "", password |-> "",
                 open_before |-> [s \in Students |-> FALSE]]

SpecPage == InitPage /\ [][NextPage]_vars

----------------------------------------------------------------------------
(* Speed entry: the speed mode view of main in src/app.py.  session_state  *)
(* holds speed_mode_active and speed_entry_index; ui records the button of *)
(* the step and, for the pass through the roster under way, the number of  *)
(* color clicks and skips, the color clicked for each student, and the     *)
(* DataFrame as it was when the pass began.                                *)

\* datetime.now(ZoneInfo("America/Chicago")).date() as "%Y-%m-%d": the day
\* of the runs
Today == "2024-01-05"

NotClicked == ""

\* the record of a step that begins a pass through the roster
PassBegins(event, df) ==
    [event |-> event, actions |-> 0,
     clicked |-> [s \in Students |-> NotClicked], at_entry |-> df]

\* a new session (a browser tab opened or reloaded): a new DataManager and
\* session state (lines 13-29), the roster loaded again and the behavior
\* data loaded from the file (lines 118-127).  speed_entry_index is not in
\* the session state until speed mode is entered, which sets it to 0; it
\* is held as 0 until then
app_start ==
    \E readable \in BOOLEAN :
        LET loaded == load_data(data_file, readable) IN
        /\ Begin(Call("load_or_create_behavior_data", "", "", "",
                      IF data_file.st = "absent" THEN "none"
                      ELSE IF readable THEN "ok" ELSE "unreadable"))
        /\ behavior_data' = loaded
        /\ session_state' = [students_df |-> Roster,
                             speed_mode_active |-> FALSE,
                             speed_entry_index |-> 0]
        /\ ui' = PassBegins("start", loaded)
        /\ Returns("None", NoFrame, NoSummary)
        /\ NoExport
        /\ UNCHANGED <<data_file, peer_data>>

\* "Enter Today's Data" (lines 210-215)
enter_speed_mode ==
    /\ ~session_state.speed_mode_active
    /\ session_state' = [session_state EXCEPT !.speed_entry_index = 0,
                                             !.speed_mode_active = TRUE]
    /\ ui' = PassBegins("Enter Today's Data", behavior_data)
    /\ Begin(NoCall)
    /\ Returns("None", NoFrame, NoSummary)
    /\ NoExport
    /\ UNCHANGED <<behavior_data, data_file, peer_data>>

\* "Back to Home Page" (lines 204-208)
back_to_home ==
    /\ session_state.speed_mode_active
    /\ session_state' = [session_state EXCEPT !.speed_mode_active = FALSE]
    /\ ui' = [ui EXCEPT !.event = "Back to Home Page"]
    /\ Begin(NoCall)
    /\ Returns("None", NoFrame, NoSummary)
    /\ NoExport
    /\ UNCHANGED <<behavior_data, data_file, peer_data>>

\* the view asks for a student: speed mode is on and the index is within
\* the roster (lines 260-278; st.stop() at line 276 otherwise)
AsksForStudent ==
    /\ session_state.speed_mode_active
    /\ session_state.speed_entry_index < Len(Roster)

\* "All students logged for today!" (lines 271-276)
AllLogged ==
    /\ session_state.speed_mode_active
    /\ session_state.speed_entry_index >= Len(Roster)

\* a color button of the speed mode view (lines 286-295); the return value
\* of add_behavior_entry is ignored
speed_color_click ==
    \E color \in Colors, outcome \in SaveOutcomes :
        LET current_student == Roster[session_state.speed_entry_index + 1]
            added == add_entry(behavior_data, current_student, color, Today)
            saved == save_behavior_data(added.df, data_file, outcome) IN
        /\ AsksForStudent
        /\ Len(added.df.rows) <= MaxRows
        /\ Begin(Call("add_behavior_entry", current_student, color, Today,
                      IF added.ok THEN outcome ELSE "none"))
        /\ behavior_data' = added.df
        /\ data_file' = IF added.ok THEN saved.file ELSE data_file
        /\ Returns(IF added.ok THEN saved.ret ELSE "False", NoFrame, NoSummary)
        /\ session_state' = [session_state EXCEPT !.speed_entry_index = @ + 1]
        /\ ui' = [ui EXCEPT !.event = "color", !.actions = @ + 1,
                            !.clicked[current_student] = color]
        /\ NoExport
        /\ UNCHANGED peer_data

\* "Skip Student" (lines 298-300)
skip_student ==
    /\ AsksForStudent
    /\ session_state' = [session_state EXCEPT !.speed_entry_index = @ + 1]
    /\ ui' = [ui EXCEPT !.event = "Skip Student", !.actions = @ + 1]
    /\ Begin(NoCall)
    /\ Returns("None", NoFrame, NoSummary)
    /\ NoExport
    /\ UNCHANGED <<behavior_data, data_file, peer_data>>

\* "Change Today's Data" (lines 273-275)
change_todays_data ==
    /\ AllLogged
    /\ session_state' = [session_state EXCEPT !.speed_entry_index = 0]
    /\ ui' = PassBegins("Change Today's Data", behavior_data)
    /\ Begin(NoCall)
    /\ Returns("None", NoFrame, NoSummary)
    /\ NoExport
    /\ UNCHANGED <<behavior_data, data_file, peer_data>>

NextSpeed ==
    \/ app_start
    \/ enter_speed_mode
    \/ back_to_home
    \/ speed_color_click
    \/ skip_student
    \/ change_todays_data

\* the first session, just started, with no file there yet
InitSpeed ==
    /\ behavior_data = load_data(AbsentFile, TRUE)
    /\ data_file = AbsentFile
    /\ export_file = AbsentFile
    /\ last = NoCallAtStart
    /\ ret = "None"
    /\ out = NoFrame
    /\ summary = NoSummary
    /\ pre_data = NoneData
    /\ pre_file = AbsentFile
    /\ session_state = [students_df |-> Roster, speed_mode_active |-> FALSE,
                        speed_entry_index |-> 0]
    /\ peer_data = NoneData
    /\ ui = PassBegins("start", load_data(AbsentFile, TRUE))

SpecSpeed == InitSpeed /\ [][NextSpeed]_vars

----------------------------------------------------------------------------
(* Properties *)

Mutations == {"add_behavior_entry", "clear_student_data", "clear_all_data"}

\* the (student, date, color) triples a DataFrame holds
Records(df) == {df.rows[i] : i \in 1..Len(df.rows)}

\* the rows of df with key (student cell, date)
KeyRows(df, cell, date) ==
    SelectSeq(df.rows, LAMBDA r : r.student = cell /\ r.date = date)

\* every student cell a roster name can be held as
StudentCells == {StrCell(s) : s \in Students} \cup {IntCell(s) : s \in Students}

CellRows(df, cell) == SelectSeq(df.rows, LAMBDA r : r.student = cell)

\* C1: the in-memory record set holds at most one record for each
\* (student, date) pair, in every state the calls can reach.
C1_KeyUniqueness ==
    \A cell \in StudentCells, date \in Dates :
        Len(KeyRows(behavior_data, cell, date)) <= 1

\* C2: after add_behavior_entry(s, c1, d) followed by
\* add_behavior_entry(s, c2, d), get_student_behavior_data(s) holds exactly
\* one record for date d, and its color is c2.
C2_Overwrite ==
    (last.op = "add_behavior_entry" /\ last.again # "no") =>
        LET got == get_student_behavior_data(behavior_data, last.s)
            on_date == SelectSeq(got.df.rows,
                                 LAMBDA r : r.date = Timestamp(last.d)) IN
        /\ ~got.raise
        /\ Len(on_date) = 1
        /\ on_date[1].color = last.c

\* C3: add_behavior_entry(s, c, d) called twice with the same arguments
\* leaves what one call leaves: the second call changes nothing in memory,
\* and there is exactly one record for key (s, d), with color c.
C3_UpsertIdempotent ==
    (last.op = "add_behavior_entry" /\ last.again = "args") =>
        /\ behavior_data = pre_data
        /\ Len(KeyRows(behavior_data, StrCell(last.s), last.d)) = 1
        /\ KeyRows(behavior_data, StrCell(last.s), last.d)[1].color = last.c

\* C4: a successful save followed by a load of the same file gives back
\* the record set that was saved.
C4_RoundTrip ==
    (/\ last.op = "load_or_create_behavior_data"
     /\ last.io = "ok"
     /\ ~pre_data.isNone
     /\ pre_file = to_csv(pre_data)) =>
        Records(behavior_data) = Records(pre_data)

\* C5: when the mutating call just completed returned True, the file holds
\* exactly the in-memory record set.
C5_FileFollowsMemory ==
    (last.op \in Mutations /\ ret = "True") =>
        data_file.rows = to_csv(behavior_data).rows

C7_DeleteAll ==
    (last.op = "clear_all_data") =>
        /\ ~behavior_data.isNone /\ IsEmpty(behavior_data)
        /\ \A s \in Students :
               LET got == get_student_behavior_data(behavior_data, s) IN
               ~got.raise /\ IsEmpty(got.df)
        /\ (ret = "True") = (last.io = "ok")
        /\ ret \in {"True", "False"}
        /\ ret = "True" => data_file = to_csv(EmptyFrame)
        /\ last.io = "open_fail" => data_file = pre_file

\* clear_all_data succeeded on a DataManager that had not loaded, over a
\* file that held records
C7_Witness ==
    /\ last.op = "clear_all_data"
    /\ pre_data.isNone
    /\ Len(pre_file.rows) > 0
    /\ ret = "True"

\* C8: no public operation ends with an error propagated to the caller.
C8_NothingRaises == ret # "raise"

\* the persist step of the add_behavior_entry just completed failed
AddPersistFailed ==
    /\ last.op = "add_behavior_entry"
    /\ last.io \in {"open_fail", "write_fail"}

AddedRow == Row(StrCell(last.s), last.d, last.c)

QueryReturnsAdded ==
    LET got == get_student_behavior_data(behavior_data, last.s) IN
    /\ ~got.raise
    /\ \E i \in 1..Len(got.df.rows) :
           got.df.rows[i] = Row(StrCell(last.s), Timestamp(last.d), last.c)

\* get_all_behavior_data returns the added record, and so does
\* get_student_behavior_data(s) when it returns
QueryReturnsAddedUnlessRaises ==
    LET got == get_student_behavior_data(behavior_data, last.s)
        all == get_all_behavior_data(behavior_data) IN
    /\ \E i \in 1..Len(all.rows) :
           all.rows[i] = Row(StrCell(last.s), DateStr(last.d), last.c)
    /\ got.raise \/ \E i \in 1..Len(got.df.rows) :
           got.df.rows[i] = Row(StrCell(last.s), Timestamp(last.d), last.c)

\* the call just completed wrote the file in full
Persisted == last.op \in Mutations /\ last.io = "ok"

C10_LoadFailsOpen ==
    (last.op = "load_or_create_behavior_data") =>
        /\ ret = "None"
        /\ data_file = pre_file
        /\ (\/ pre_file.st # "table"
            \/ last.io = "unreadable"
            \/ "student" \notin pre_file.cols) => behavior_data = EmptyFrame

\* a table with rows but no student column was loaded
C10_Witness ==
    /\ last.op = "load_or_create_behavior_data"
    /\ last.io = "ok"
    /\ pre_file.st = "table"
    /\ "student" \notin pre_file.cols
    /\ Len(pre_file.rows) > 0

\* how many of the rows are r
CountOf(rows, r) == Len(SelectSeq(rows, LAMBDA x : x = r))

\* C11: get_student_behavior_data(s) returns exactly the in-memory records
\* whose student equals s (each as often as memory holds it, its date as a
\* Timestamp), ordered by ascending date, and returns an empty result, not
\* an error, when s has no records, the store is empty or was not loaded.
C11_StudentQuery ==
    (last.op = "get_student_behavior_data") =>
        LET held == CellRows(behavior_data, StrCell(last.s)) IN
        /\ ret = "frame"
        /\ Len(out) = Len(held)
        /\ \A i \in 1..Len(held) :
               LET r == [held[i] EXCEPT !.date = Timestamp(@)] IN
               CountOf(out, r) =
                   CountOf(held, held[i])
        /\ \A i, j \in 1..Len(out) :
               i < j => DateNum(out[i].date.v) <= DateNum(out[j].date.v)

\* the rows of df with start <= date <= end, dates as the bulk query gives them
RowsInRange(df, start, end) ==
    LET within == SelectSeq(df.rows,
                    LAMBDA r : /\ DateNum(start) <= DateNum(r.date)
                               /\ DateNum(r.date) <= DateNum(end)) IN
    [i \in 1..Len(within) |-> [within[i] EXCEPT !.date = DateStr(@)]]

\* row by row, out is what memory holds
OutIsAllOfMemory ==
    /\ Len(out) = Len(behavior_data.rows)
    /\ \A i \in 1..Len(out) :
           /\ out[i].student = behavior_data.rows[i].student
           /\ out[i].date.v = behavior_data.rows[i].date
           /\ out[i].color = behavior_data.rows[i].color

HasAddedKey(r) == r.student = StrCell(last.s) /\ r.date = last.d

\* memory held a record with that key when the call began
KeyExisted == \E i \in 1..Len(pre_data.rows) : HasAddedKey(pre_data.rows[i])

\* every record held before is where it was, with the color given when it
\* has the added key and as it was otherwise; a new key is appended at the
\* end; the count grows by one for a new key and by zero for an existing one
UpsertFrame ==
    /\ Len(behavior_data.rows) =
           Len(pre_data.rows) + (IF KeyExisted THEN 0 ELSE 1)
    /\ \A i \in 1..Len(pre_data.rows) :
           /\ i <= Len(behavior_data.rows)
           /\ behavior_data.rows[i] =
                  IF HasAddedKey(pre_data.rows[i])
                  THEN [pre_data.rows[i] EXCEPT !.color = last.c]
                  ELSE pre_data.rows[i]
    /\ ~KeyExisted =>
           /\ Len(behavior_data.rows) > 0
           /\ behavior_data.rows[Len(behavior_data.rows)] = AddedRow

NoDateColumn == ~pre_data.isNone /\ "date" \notin pre_data.cols

C17_UpsertKeepsFile ==
    (last.op = "add_behavior_entry" /\ ret = "True") =>
        \A i \in 1..Len(pre_file.rows) :
            (pre_file.rows[i].student # last.s \/ pre_file.rows[i].date # last.d)
                => \E j \in 1..Len(data_file.rows) :
                       data_file.rows[j] = pre_file.rows[i]

\* the records of student i of the report just made: none, or point-neutral
\* every one
NoPoints(i) ==
    \A k \in 1..Len(out[i]) :
        PointValue(out[i][k], session_state.behavior_tracker) = 0

\* C13: calculate_points_summary over no entries, or over entries that are
\* all point-neutral, returns good_percentage 0 (and days_recorded 0 for no
\* entries) instead of failing; the report passes it the empty result of
\* get_student_behavior_data for a student without records, so a report
\* that fails fails in the query or the charts of a student with records.
C13_ZeroDenominator ==
    (last.op = "generate_rich_html_report") =>
        LET student_list == StudentList(last.s, last.c) IN
        /\ ret = "html" =>
               \A i \in 1..Len(student_list) :
                   /\ Len(out[i]) =
                          Len(CellRows(behavior_data, StrCell(student_list[i])))
                   /\ NoPoints(i) => summary[i].good_percentage = 0
                   /\ Len(out[i]) = 0 => summary[i].days_recorded = 0
        /\ ret = "raise" =>
               \E i \in 1..Len(student_list) :
                   LET got == get_student_behavior_data(behavior_data,
                                                        student_list[i]) IN
                   /\ Len(CellRows(behavior_data, StrCell(student_list[i]))) > 0
                   /\ got.raise
                      \/ ChartsRaise(got.df, session_state.behavior_tracker)

\* a report for the roster was made where one student had no records and
\* the other had only point-neutral ones
C13_Witness ==
    /\ last.op = "generate_rich_html_report"
    /\ ret = "html"
    /\ last.c = "All Students"
    /\ Len(out[1]) > 0 /\ NoPoints(1)
    /\ Len(out[2]) = 0

\* a session's add_behavior_entry succeeded right after the other session's
\* add_behavior_entry for another key had succeeded
AddAfterPeerAdd ==
    /\ ui.event = "call"
    /\ last.op = "add_behavior_entry" /\ ret = "True"
    /\ ui.before.op = "add_behavior_entry" /\ ui.before.ret = "True"
    /\ ui.before.session # ui.session
    /\ <<ui.before.s, ui.before.d>> # <<last.s, last.d>>

\* the file holds a row with the key of the other session's add
FileHasPeerKey(file) ==
    \E i \in 1..Len(file.rows) :
        file.rows[i].student = ui.before.s /\ file.rows[i].date = ui.before.d

\* C14: no lock is taken around upsert and persist, so with two DataManager
\* instances on one file an update is lost: when B's successful
\* add_behavior_entry for key k2 follows A's successful add_behavior_entry
\* for another key k1, the file is B's memory written in full, and holds k1
\* only if B's memory held k1 before the call.
C14_LostUpdate ==
    AddAfterPeerAdd =>
        /\ data_file = to_csv(DataOf(ui.session))
        /\ FileHasPeerKey(data_file) =>
               \E i \in 1..Len(pre_data.rows) :
                   /\ pre_data.rows[i].student.v = ui.before.s
                   /\ pre_data.rows[i].date = ui.before.d

\* both sessions had loaded, A's add had put k1 in the file, and after B's
\* successful add for k2 the file no longer contains k1
C14_Witness ==
    /\ AddAfterPeerAdd
    /\ ui.before.session = "A" /\ ui.session = "B"
    /\ FileHasPeerKey(pre_file)
    /\ ~FileHasPeerKey(data_file)
    /\ FileHasPeerKey(to_csv(behavior_data))

Clears == {"clear_student_data", "clear_all_data"}

\* C16: clear_student_data and clear_all_data are called only in a step in
\* which Clear Data is pressed and the password typed is the configured
\* one; with any other password memory and file are unchanged and the
\* dialog stays open; and a dialog that was open is closed only in a step
\* in which a clear returned True or Cancel was pressed.  (Open and closed
\* are the value of show_clear_dialog_{student}.)
C16_PasswordGate ==
    /\ last.op \in Clears =>
           ui.event = "Clear Data" /\ ui.password = "MRSJOYNER"
    /\ (ui.event = "Clear Data" /\ ui.password # "MRSJOYNER") =>
           /\ last.op \notin Clears
           /\ behavior_data = pre_data
           /\ data_file = pre_file
           /\ session_state.show_clear_dialog = ui.open_before
           /\ DialogShown
    /\ \A s \in Students :
           (ui.open_before[s] /\ ~session_state.show_clear_dialog[s]) =>
               \/ ui.event = "Cancel"
               \/ ui.event = "Clear Data" /\ last.op \in Clears /\ ret = "True"

\* Clear Data was pressed with the right password, the clear did not
\* return True, and the dialog is still open
C16_Witness ==
    /\ ui.event = "Clear Data"
    /\ ui.password = "MRSJOYNER"
    /\ last.op = "clear_all_data"
    /\ ret = "False"
    /\ session_state.show_clear_dialog[session_state.selected_student]

\* the records the store holds for a student, by name
RecordsOf(df, student) == SelectSeq(df.rows, LAMBDA r : r.student.v = student)

\* C18: in speed mode over the roster of N students the index starts at 0,
\* each color click or Skip advances it by one, the roster is indexed only
\* while the index is below N, and after N such actions all students are
\* logged; then every student a color was clicked for has exactly one
\* record for the current date, with that color, and the records of the
\* skipped students are as they were.
C18_SpeedEntry ==
    session_state.speed_mode_active =>
        /\ session_state.speed_entry_index = ui.actions
        /\ session_state.speed_entry_index <= Len(Roster)
        /\ AllLogged <=> ui.actions = Len(Roster)
        /\ AllLogged =>
               \A i \in 1..Len(Roster) :
                   LET held == RecordsOf(behavior_data, Roster[i])
                       today == SelectSeq(held, LAMBDA r : r.date = Today) IN
                   IF ui.clicked[Roster[i]] # NotClicked
                   THEN /\ Len(today) = 1
                        /\ today[1].color = ui.clicked[Roster[i]]
                   ELSE held = RecordsOf(ui.at_entry, Roster[i])

====
